---- MODULE Spec2Model ----
(***************************************************************************)
(* Model of rag_system/factory.py (get_agent, get_indexing_pipeline) and   *)
(* rag_system/utils/watsonx_client.py (WatsonXClient).                     *)
(*                                                                         *)
(* Three specifications share the module:                                  *)
(*   Spec        the two factory functions, run by interleaved callers     *)
(*   SpecGen     generate_completion and generate_completion_async         *)
(*   SpecStream  the stream_completion generator                           *)
(***************************************************************************)
EXTENDS Integers, Sequences, FiniteSets, TLC

VARIABLES
    \* rag_system.main globals read by the factory
    PIPELINE_CONFIGS, LLM_BACKEND, WATSONX_CONFIG, sdkInstalled,
    \* factory: callers in flight and what they produced
    calls, started, built, raised, adapters, networkCalls, initial_configs,
    \* WatsonXClient.generate_completion / generate_completion_async
    args, behaviour, syncPc, syncResult, syncRequest,
    asyncPc, workerResult, asyncResult, asyncRequest, elapsed, client,
    \* WatsonXClient.stream_completion
    sargs, script, fallbackBehaviour, streamPc, yielded, streamRequest,
    backendCalls, failedAfter, failKind, yieldedAtFallback

factoryVars == <<PIPELINE_CONFIGS, LLM_BACKEND, WATSONX_CONFIG, sdkInstalled,
                 calls, started, built, raised, adapters, networkCalls, initial_configs>>
genVars == <<args, behaviour, syncPc, syncResult, syncRequest,
             asyncPc, workerResult, asyncResult, asyncRequest, elapsed, client>>
streamVars == <<sargs, script, fallbackBehaviour, streamPc, yielded, streamRequest,
                backendCalls, failedAfter, failKind, yieldedAtFallback>>
vars == <<factoryVars, genVars, streamVars>>

----------------------------------------------------------------------------
(* Bounds of the model *)

\* factory calls started in one behaviour
MaxBuilds == 3
\* largest sampling-parameter value a caller supplies (0 is always included)
MaxParam == 1
\* largest timeout hint a caller supplies
MaxTimeout == 2
\* clock ticks observed while an offloaded call is outstanding
MaxElapsed == 3
\* items the backend's stream holds before it completes or fails
MaxChunks == 2

----------------------------------------------------------------------------
(* Python values: None, str, int, list, dict, tagged by their type *)

None == [type |-> "NoneType"]
PyStr(s) == [type |-> "str", v |-> s]
PyInt(n) == [type |-> "int", v |-> n]
PyList(s) == [type |-> "list", v |-> s]
PyDict(f) == [type |-> "dict", v |-> f]
EmptyDict == PyDict(<<>>)

\* bool(x), as `if x:` and `not x` evaluate it
Truthy(x) ==
    CASE x.type = "NoneType" -> FALSE
      [] x.type = "str" -> x.v # ""
      [] x.type = "int" -> x.v # 0
      [] x.type = "list" -> Len(x.v) # 0
      [] x.type = "dict" -> DOMAIN x.v # {}

\* d.get(k) on a mapping held as a TLA+ function: None when the key is absent
Get(d, k) == IF k \in DOMAIN d THEN d[k] ELSE None

\* d[k] = v on a mapping held as a TLA+ function
SetItem(d, k, v) == [x \in DOMAIN d \cup {k} |-> IF x = k THEN v ELSE d[x]]

\* str.lower() on a string held as a sequence of characters
ToLower == ("W" :> "w") @@ ("A" :> "a") @@ ("T" :> "t") @@ ("S" :> "s")
           @@ ("O" :> "o") @@ ("N" :> "n") @@ ("X" :> "x") @@ ("L" :> "l")
           @@ ("M" :> "m")
Lower(s) == [i \in DOMAIN s |-> IF s[i] \in DOMAIN ToLower THEN ToLower[s[i]] ELSE s[i]]

watsonx == <<"w", "a", "t", "s", "o", "n", "x">>

----------------------------------------------------------------------------
(* rag_system.main: the process-wide configuration the factory imports *)

DefaultStorage ==
    [db_path |-> "lancedb",
     text_table_name |-> "text_pages_default",
     image_table_name |-> "image_pages"]

CustomStorage ==
    [db_path |-> "./index_store/lancedb",
     text_table_name |-> "text_pages_v3",
     image_table_name |-> "image_pages_v3"]

OLLAMA_CONFIG == [host |-> "http://localhost:11434"]

ollama == <<"o", "l", "l", "a", "m", "a">>

\* spellings of the selector that name the cloud backend
CloudSpellings ==
    { watsonx,
      <<"W", "a", "t", "s", "o", "n", "X">>,
      <<"W", "A", "T", "S", "O", "N", "X">> }

\* a credential or project id: unset, empty or set
Credentials == {None, PyStr(""), PyStr("key")}
ProjectIds == {None, PyStr(""), PyStr("p1")}

WatsonxConfig(a, p) ==
    [api_key |-> a, project_id |-> p, url |-> "https://us-south.ml.cloud.ibm.com"]

WatsonxConfigs == { WatsonxConfig(a, p) : a \in Credentials, p \in ProjectIds }

DefaultEntries ==
    { [retriever |-> "multivector"],
      [retriever |-> "multivector", storage |-> DefaultStorage],
      [retriever |-> "multivector", storage |-> CustomStorage] }

FastEntries ==
    { [retriever |-> "bm25"],
      [retriever |-> "bm25", storage |-> CustomStorage] }

\* the process-wide settings a deployment can start with: a local one with no
\* cloud settings, a cloud one under every spelling and every credential and
\* project id, and a complete cloud one without the SDK installed
Deployments ==
    {[backend |-> ollama, config |-> WatsonxConfig(None, None), sdk |-> FALSE]}
    \cup {[backend |-> b, config |-> w, sdk |-> TRUE] : b \in CloudSpellings, w \in WatsonxConfigs}
    \cup {[backend |-> watsonx, config |-> WatsonxConfig(PyStr("key"), PyStr("p1")), sdk |-> FALSE]}

\* tables the process can start with: "default" is always a key
Tables == { [default |-> d, fast |-> f] : d \in DefaultEntries, f \in FastEntries }

\* mode names a caller passes; "research" is in no table
Modes == {"default", "fast", "research"}

\* the threads that call the factory
CallIds == {"t1", "t2"}

IdleCall ==
    [pc |-> "idle", kind |-> "agent", mode |-> "default", llm_client |-> "none",
     llm_config |-> "none", config |-> "none"]

----------------------------------------------------------------------------
(* factory.py *)

\* lines 15 and 61: LLM_BACKEND.lower() == "watsonx"
CloudSelected == Lower(LLM_BACKEND) = watsonx

ConfigIncomplete_And ==
    ~Truthy(WATSONX_CONFIG.api_key) /\ ~Truthy(WATSONX_CONFIG.project_id)

\* lines 18 and 64: not WATSONX_CONFIG["api_key"] or not WATSONX_CONFIG["project_id"]
ConfigIncomplete ==
    ~Truthy(WATSONX_CONFIG.api_key) \/ ~Truthy(WATSONX_CONFIG.project_id)

\* lines 34 and 80: the key whose entry PIPELINE_CONFIGS.get(mode, PIPELINE_CONFIGS['default']) returns
Resolve(mode) == IF mode \in DOMAIN PIPELINE_CONFIGS THEN mode ELSE "default"

InjectAlways(config) == SetItem(config, "storage", DefaultStorage)

\* lines 36-41: the entry after `if 'storage' not in config: config['storage'] = {...}`
Inject(config) ==
    IF "storage" \notin DOMAIN config
    THEN SetItem(config, "storage", DefaultStorage)
    ELSE config

unchangedGlobals == UNCHANGED <<LLM_BACKEND, WATSONX_CONFIG, sdkInstalled, initial_configs>>

\* lines 15-32 and 61-78: choose, validate and construct the LLM client.
\* WatsonXClient.__init__ (watsonx_client.py 27-53) raises ImportError without
\* the SDK, and otherwise opens the API client and sets the default project.
SelectBackend(c, kind, mode) ==
    IF CloudSelected
    THEN IF ConfigIncomplete
         THEN /\ raised' = raised \cup {[kind |-> kind, mode |-> mode, error |-> "ValueError"]}
              /\ UNCHANGED <<calls, adapters, networkCalls>>
         ELSE IF ~sdkInstalled
              THEN /\ raised' = raised \cup {[kind |-> kind, mode |-> mode, error |-> "ImportError"]}
                   /\ UNCHANGED <<calls, adapters, networkCalls>>
              ELSE /\ calls' = [calls EXCEPT ![c] =
                                  [pc |-> "resolve", kind |-> kind, mode |-> mode,
                                   llm_client |-> "WatsonXClient",
                                   llm_config |-> "WATSONX_CONFIG", config |-> "none"]]
                   /\ adapters' = adapters + 1
                   /\ networkCalls' = networkCalls + 1
                   /\ UNCHANGED raised
    ELSE /\ calls' = [calls EXCEPT ![c] =
                        [pc |-> "resolve", kind |-> kind, mode |-> mode,
                         llm_client |-> "OllamaClient",
                         llm_config |-> "OLLAMA_CONFIG", config |-> "none"]]
         /\ adapters' = adapters + 1
         /\ UNCHANGED <<raised, networkCalls>>

\* lines 3-32: a caller enters get_agent(mode) and gets its LLM client, or the
\* configuration error
get_agent(c, mode) ==
    /\ calls[c].pc = "idle"
    /\ started < MaxBuilds
    /\ started' = started + 1
    /\ SelectBackend(c, "agent", mode)
    /\ UNCHANGED <<PIPELINE_CONFIGS, built>>
    /\ unchangedGlobals

\* lines 50-78: a caller enters get_indexing_pipeline(mode)
get_indexing_pipeline(c, mode) ==
    /\ calls[c].pc = "idle"
    /\ started < MaxBuilds
    /\ started' = started + 1
    /\ SelectBackend(c, "indexing", mode)
    /\ UNCHANGED <<PIPELINE_CONFIGS, built>>
    /\ unchangedGlobals

\* lines 34 and 80: config refers to the table's own entry, not to a copy
ResolveConfig(c) ==
    /\ calls[c].pc = "resolve"
    /\ calls' = [calls EXCEPT ![c].config = Resolve(calls[c].mode),
                              ![c].pc = IF calls[c].kind = "agent" THEN "inject" ELSE "construct"]
    /\ UNCHANGED <<PIPELINE_CONFIGS, started, built, raised, adapters, networkCalls>>
    /\ unchangedGlobals

\* lines 36-41 (get_agent only): the assignment goes through the reference
InjectStorage(c) ==
    /\ calls[c].pc = "inject"
    /\ PIPELINE_CONFIGS' =
          [PIPELINE_CONFIGS EXCEPT ![calls[c].config] = Inject(PIPELINE_CONFIGS[calls[c].config])]
    /\ calls' = [calls EXCEPT ![c].pc = "construct"]
    /\ UNCHANGED <<started, built, raised, adapters, networkCalls>>
    /\ unchangedGlobals

\* what the target component's constructor receives
Component(c) ==
    [kind |-> calls[c].kind,
     mode |-> calls[c].mode,
     ref |-> calls[c].config,
     pipeline_configs |-> PIPELINE_CONFIGS[calls[c].config],
     llm_client |-> calls[c].llm_client,
     llm_config |-> calls[c].llm_config]

\* lines 43-48: Agent(pipeline_configs=config, llm_client=..., ollama_config=...)
\* is built and returned
ConstructAgent(c) ==
    /\ calls[c].pc = "construct"
    /\ calls[c].kind = "agent"
    /\ built' = built \cup {Component(c)}
    /\ calls' = [calls EXCEPT ![c] = IdleCall]
    /\ UNCHANGED <<PIPELINE_CONFIGS, started, raised, adapters, networkCalls>>
    /\ unchangedGlobals

\* line 82: IndexingPipeline(config, llm_client, llm_config) is built and returned
ConstructIndexingPipeline(c) ==
    /\ calls[c].pc = "construct"
    /\ calls[c].kind = "indexing"
    /\ built' = built \cup {Component(c)}
    /\ calls' = [calls EXCEPT ![c] = IdleCall]
    /\ UNCHANGED <<PIPELINE_CONFIGS, started, raised, adapters, networkCalls>>
    /\ unchangedGlobals

----------------------------------------------------------------------------
(* watsonx_client.py: the backend as the client sees it *)

\* keyword arguments a caller may pass as sampling parameters
SamplingNames == {"max_tokens", "temperature", "top_p", "top_k"}

ParamValues == { PyInt(n) : n \in 0..MaxParam }

\* every **kwargs a caller can pass: any subset of the names, any values
KwargsSets ==
    UNION { [names -> ParamValues] : names \in SUBSET SamplingNames }

\* what a call into the SDK does: raises, or returns a value
Raise(at, exc, msg) == [at |-> at, kind |-> "raise", exc |-> exc, msg |-> msg, value |-> None]
Return(value) == [at |-> "generate", kind |-> "return", exc |-> "", msg |-> "", value |-> value]

WellFormedResult ==
    PyDict([results |-> PyList(<<PyDict([generated_text |-> PyStr("AI is ...")])>>)])

\* responses that are not what the provider documents
MalformedResults ==
    { EmptyDict,
      PyDict([results |-> PyList(<<>>)]),
      PyDict([results |-> PyList(<<EmptyDict>>)]),
      PyDict([results |-> None]),
      PyDict([results |-> PyList(<<PyStr("oops")>>)]),
      None }

\* exceptions of the transport and of the SDK, with what str() gives for them
Failures(at) ==
    { Raise(at, "ConnectionError", "connection refused"),
      Raise(at, "WMLClientError", "401 unauthorized"),
      Raise(at, "TimeoutError", "timed out") }

\* how ModelInference(...) followed by generate(prompt=...) can go
Behaviours ==
    Failures("ModelInference") \cup Failures("generate")
    \cup { Return(v) : v \in {WellFormedResult, PyStr("AI is ...")} \cup MalformedResults }

\* str(x)
ToStr(x) ==
    CASE x.type = "NoneType" -> "None"
      [] x.type = "str" -> x.v

Returned(v) == [ok |-> TRUE, value |-> v, exc |-> "", msg |-> ""]
Raised(exc, msg) == [ok |-> FALSE, value |-> "", exc |-> exc, msg |-> msg]

\* lines 133-137 and 213-217: the generated text of a result, or the exception
\* that result.get('results', [{}])[0].get('generated_text', '') raises
ExtractText(result) ==
    IF result.type = "dict"
    THEN LET results == IF "results" \in DOMAIN result.v
                        THEN result.v["results"]
                        ELSE PyList(<<EmptyDict>>)
         IN  IF results.type # "list"
             THEN Raised("TypeError", "'NoneType' object is not subscriptable")
             ELSE IF Len(results.v) = 0
             THEN Raised("IndexError", "list index out of range")
             ELSE IF results.v[1].type # "dict"
             THEN Raised("AttributeError", "'str' object has no attribute 'get'")
             ELSE IF "generated_text" \in DOMAIN results.v[1].v
             THEN Returned(results.v[1].v["generated_text"].v)
             ELSE Returned("")
    ELSE Returned(ToStr(result))

\* the name TextGenParameters gives a sampling parameter
BackendName(k) == IF k = "max_tokens" THEN "max_new_tokens" ELSE k

CallerName(n) == IF n = "max_new_tokens" THEN "max_tokens" ELSE n

\* the gen_params that `if kwargs.get(k): gen_params[...] = kwargs[k]` builds
\* from the names a method looks at
BuildGenParams(kwargs, names) ==
    LET forwarded == { k \in names : Truthy(Get(kwargs, k)) }
    IN  [n \in { BackendName(k) : k \in forwarded } |-> kwargs[CallerName(n)]]

\* lines 107-116: generate_completion looks at all four
GenParams(kwargs) == BuildGenParams(kwargs, SamplingNames)

\* lines 192-196: stream_completion looks at max_tokens and temperature
StreamGenParams(kwargs) == BuildGenParams(kwargs, {"max_tokens", "temperature"})

\* lines 118 and 198: TextGenParameters(**gen_params) if gen_params else None
Parameters(gen_params) == IF DOMAIN gen_params # {} THEN PyDict(gen_params) ELSE None

\* lines 120-125 and 200-205: what ModelInference(...) is constructed with
Inference(model, parameters) ==
    [call |-> "ModelInference", model_id |-> model, params |-> parameters]

\* lines 106-147: generate_completion. result is the dictionary returned,
\* request the calls the backend received.
GenerateCompletion(a, beh) ==
    LET parameters == Parameters(GenParams(a.kwargs))
        inference == Inference(a.model, parameters)
        generate == [call |-> "generate", prompt |-> a.prompt]
        failed(msg) == [response |-> "", error |-> msg]
    IN  IF beh.kind = "raise" /\ beh.at = "ModelInference"
        THEN [result |-> failed(beh.msg), request |-> <<inference>>]
        ELSE IF beh.kind = "raise"
        THEN [result |-> failed(beh.msg), request |-> <<inference, generate>>]
        ELSE LET text == ExtractText(beh.value)
             IN  IF text.ok
                 THEN [result |-> [response |-> text.value, model |-> a.model, done |-> TRUE],
                       request |-> <<inference, generate>>]
                 ELSE [result |-> failed(text.msg), request |-> <<inference, generate>>]

AsyncForwardNoKwargs(a) ==
    [model |-> a.model, prompt |-> a.prompt, format |-> a.format, images |-> a.images,
     enable_thinking |-> a.enable_thinking, kwargs |-> <<>>]

\* lines 171-174: the arguments the lambda hands to generate_completion;
\* timeout is not among them
AsyncForward(a) ==
    [model |-> a.model, prompt |-> a.prompt, format |-> a.format, images |-> a.images,
     enable_thinking |-> a.enable_thinking, kwargs |-> a.kwargs]

\* the arguments of a direct call generate_completion(model, prompt, format=...,
\* images=..., enable_thinking=..., **kwargs)
Direct(a) ==
    [model |-> a.model, prompt |-> a.prompt, format |-> a.format, images |-> a.images,
     enable_thinking |-> a.enable_thinking, kwargs |-> a.kwargs]

\* lines 27-29: the attributes __init__ sets
NewClient ==
    [api_key |-> "key", project_id |-> "p1", url |-> "https://us-south.ml.cloud.ibm.com"]

\* the inputs of one scenario, given to both variants
ArgsSets ==
    [model : {"ibm/granite-13b-chat-v2"},
     prompt : {"What is AI?"},
     format : {"", "json"},
     images : {None, PyList(<<"image">>)},
     enable_thinking : {None},
     timeout : 1..MaxTimeout,
     kwargs : KwargsSets]

unchangedScenario == UNCHANGED <<args, behaviour, client>>

\* the caller runs generate_completion to its return
SyncCall ==
    /\ syncPc = "idle"
    /\ LET r == GenerateCompletion(Direct(args), behaviour)
       IN  /\ syncResult' = r.result
           /\ syncRequest' = r.request
    /\ syncPc' = "done"
    /\ UNCHANGED <<asyncPc, workerResult, asyncResult, asyncRequest, elapsed>>
    /\ unchangedScenario

\* lines 166-170: generate_completion_async hands the lambda to the default
\* executor and awaits it
AsyncSubmit ==
    /\ asyncPc = "idle"
    /\ asyncPc' = "awaiting"
    /\ UNCHANGED <<syncPc, syncResult, syncRequest, workerResult, asyncResult, asyncRequest, elapsed>>
    /\ unchangedScenario

\* time passes while the blocking call runs in the worker
Tick ==
    /\ asyncPc = "awaiting"
    /\ elapsed < MaxElapsed
    /\ elapsed' = elapsed + 1
    /\ UNCHANGED <<syncPc, syncResult, syncRequest, asyncPc, workerResult, asyncResult, asyncRequest>>
    /\ unchangedScenario

\* lines 171-174: the worker's generate_completion returns
WorkerRun ==
    /\ asyncPc = "awaiting"
    /\ LET r == GenerateCompletion(AsyncForward(args), behaviour)
       IN  /\ workerResult' = r.result
           /\ asyncRequest' = r.request
    /\ asyncPc' = "workerDone"
    /\ UNCHANGED <<syncPc, syncResult, syncRequest, asyncResult, elapsed>>
    /\ unchangedScenario

\* line 169: the await completes with the worker's result, whatever the time
AsyncReturn ==
    /\ asyncPc = "workerDone"
    /\ asyncResult' = workerResult
    /\ asyncPc' = "done"
    /\ UNCHANGED <<syncPc, syncResult, syncRequest, workerResult, asyncRequest, elapsed>>
    /\ unchangedScenario

----------------------------------------------------------------------------
(* watsonx_client.py: stream_completion, a generator. Each action is one    *)
(* next() of the consumer: the generator's code up to its next yield or its *)
(* return.                                                                  *)

\* what generate_text_stream can hand over: text, or an empty item
StreamItems == {"AI ", "is", ""}

ItemSeqs == UNION { [1..n -> StreamItems] : n \in 0..MaxChunks }

\* how the streaming call ends after its items: the stream completes, or the
\* iteration raises
StreamEnds == {"complete", "AttributeError", "ConnectionError"}

\* the backend during one stream_completion: ModelInference(...) raises; or the
\* SDK has no generate_text_stream; or it streams items and then ends
Scripts ==
    {[construct |-> "raise", hasStream |-> TRUE, items |-> <<>>, end |-> "complete"]}
    \cup {[construct |-> "ok", hasStream |-> FALSE, items |-> <<>>, end |-> "complete"]}
    \cup {[construct |-> "ok", hasStream |-> TRUE, items |-> i, end |-> e] :
             i \in ItemSeqs, e \in StreamEnds}

\* how generate(prompt=...) goes if the fallback calls it
FallbackBehaviours ==
    { Return(WellFormedResult),
      Return(EmptyDict),
      Return(PyDict([results |-> PyList(<<>>)])),
      Raise("generate", "ConnectionError", "connection refused") }

StreamArgsSets ==
    [model : {"ibm/granite-13b-chat-v2"},
     prompt : {"What is AI?"},
     kwargs : KwargsSets]

RECURSIVE SkipFalsy(_)
\* line 209: items that `if chunk:` passes over before the next yield
SkipFalsy(items) ==
    IF items # <<>> /\ items[1] = "" THEN SkipFalsy(Tail(items)) ELSE items

\* the generator is inside the inner try, about to ask the stream for an item
InLoop ==
    \/ streamPc = "created" /\ script.construct = "ok" /\ script.hasStream
    \/ streamPc = "streaming"

\* lines 192-205, run by the first next(): ModelInference is constructed
CallsAfterStart ==
    IF streamPc = "created" THEN <<"ModelInference">> ELSE backendCalls

\* lines 192-205: the request ModelInference gets, built from max_tokens and
\* temperature alone
RequestAfterStart ==
    IF streamPc = "created"
    THEN <<Inference(sargs.model, Parameters(StreamGenParams(sargs.kwargs)))>>
    ELSE streamRequest

unchangedStreamInputs == UNCHANGED <<sargs, fallbackBehaviour>>

\* lines 208-210: the stream hands over a non-empty chunk and it is yielded
NextChunk ==
    /\ InLoop
    /\ SkipFalsy(script.items) # <<>>
    /\ yielded' = Append(yielded, Head(SkipFalsy(script.items)))
    /\ script' = [script EXCEPT !.items = Tail(SkipFalsy(script.items))]
    /\ streamPc' = "streaming"
    /\ streamRequest' = RequestAfterStart
    /\ backendCalls' =
          IF streamPc = "created"
          THEN Append(CallsAfterStart, "generate_text_stream")
          ELSE backendCalls
    /\ UNCHANGED <<failedAfter, failKind, yieldedAtFallback>>
    /\ unchangedStreamInputs

\* line 208: the stream is exhausted and the generator returns
NextComplete ==
    /\ InLoop
    /\ SkipFalsy(script.items) = <<>>
    /\ script.end = "complete"
    /\ script' = [script EXCEPT !.items = <<>>]
    /\ streamPc' = "done"
    /\ streamRequest' = RequestAfterStart
    /\ backendCalls' =
          IF streamPc = "created"
          THEN Append(CallsAfterStart, "generate_text_stream")
          ELSE backendCalls
    /\ UNCHANGED <<yielded, failedAfter, failKind, yieldedAtFallback>>
    /\ unchangedStreamInputs

\* lines 220-222: ModelInference(...) or the iteration raises something other
\* than AttributeError; the outer handler yields ""
NextError ==
    /\ \/ streamPc = "created" /\ script.construct = "raise"
       \/ /\ InLoop
          /\ SkipFalsy(script.items) = <<>>
          /\ script.end \notin {"complete", "AttributeError"}
    /\ failKind' = IF script.construct = "raise" THEN "ModelInference" ELSE script.end
    /\ failedAfter' = Len(yielded)
    /\ yielded' = Append(yielded, "")
    /\ script' = [script EXCEPT !.items = <<>>]
    /\ streamPc' = "lastYield"
    /\ streamRequest' = RequestAfterStart
    /\ backendCalls' =
          IF streamPc = "created" /\ script.construct = "ok"
          THEN Append(CallsAfterStart, "generate_text_stream")
          ELSE CallsAfterStart
    /\ UNCHANGED yieldedAtFallback
    /\ unchangedStreamInputs

\* the chunk the fallback yields: the text of one blocking generate call
\* (lines 212-218), or "" when that call raises into the outer handler
\* (lines 220-222)
FallbackChunk ==
    IF fallbackBehaviour.kind = "raise"
    THEN ""
    ELSE IF ExtractText(fallbackBehaviour.value).ok
    THEN ExtractText(fallbackBehaviour.value).value
    ELSE ""

FallbackFailed ==
    \/ fallbackBehaviour.kind = "raise"
    \/ ~ExtractText(fallbackBehaviour.value).ok

\* lines 211-218: an AttributeError leaves the inner try, because the SDK has
\* no generate_text_stream or because the iteration raised one, and the
\* handler makes the blocking call
NextFallback ==
    /\ \/ streamPc = "created" /\ script.construct = "ok" /\ ~script.hasStream
       \/ /\ InLoop
          /\ SkipFalsy(script.items) = <<>>
          /\ script.end = "AttributeError"
    /\ yieldedAtFallback' = Len(yielded)
    /\ failKind' =
          IF script.hasStream THEN "AttributeError"
          ELSE IF FallbackFailed THEN "generate"
          ELSE "none"
    /\ failedAfter' = IF script.hasStream \/ FallbackFailed THEN Len(yielded) ELSE -1
    /\ yielded' = Append(yielded, FallbackChunk)
    /\ script' = [script EXCEPT !.items = <<>>]
    /\ streamPc' = "lastYield"
    /\ streamRequest' = Append(RequestAfterStart, [call |-> "generate", prompt |-> sargs.prompt])
    /\ backendCalls' =
          IF streamPc = "created" /\ script.hasStream
          THEN CallsAfterStart \o <<"generate_text_stream", "generate">>
          ELSE Append(CallsAfterStart, "generate")
    /\ unchangedStreamInputs

\* after the last yield of a handler the generator returns
NextStop ==
    /\ streamPc = "lastYield"
    /\ streamPc' = "done"
    /\ UNCHANGED <<script, yielded, streamRequest, backendCalls, failedAfter, failKind,
                   yieldedAtFallback>>
    /\ unchangedStreamInputs

----------------------------------------------------------------------------
(* Parts of the state a specification leaves alone *)

FactoryOff ==
    /\ PIPELINE_CONFIGS = [default |-> [retriever |-> "multivector"], fast |-> [retriever |-> "bm25"]]
    /\ initial_configs = PIPELINE_CONFIGS
    /\ LLM_BACKEND = watsonx
    /\ WATSONX_CONFIG = [api_key |-> PyStr("key"), project_id |-> PyStr("p1"),
                         url |-> "https://us-south.ml.cloud.ibm.com"]
    /\ sdkInstalled = TRUE
    /\ calls = [c \in CallIds |-> IdleCall]
    /\ started = 0
    /\ built = {}
    /\ raised = {}
    /\ adapters = 0
    /\ networkCalls = 0

GenOff ==
    /\ args = <<>>
    /\ behaviour = <<>>
    /\ syncPc = "off"
    /\ syncResult = <<>>
    /\ syncRequest = <<>>
    /\ asyncPc = "off"
    /\ workerResult = <<>>
    /\ asyncResult = <<>>
    /\ asyncRequest = <<>>
    /\ elapsed = 0
    /\ client = <<>>

StreamOff ==
    /\ sargs = <<>>
    /\ script = <<>>
    /\ fallbackBehaviour = <<>>
    /\ streamPc = "off"
    /\ yielded = <<>>
    /\ streamRequest = <<>>
    /\ backendCalls = <<>>
    /\ failedAfter = -1
    /\ failKind = "none"
    /\ yieldedAtFallback = -1

----------------------------------------------------------------------------
(* Spec: the factory, called by interleaved callers *)

Init ==
    /\ PIPELINE_CONFIGS \in Tables
    /\ initial_configs = PIPELINE_CONFIGS
    /\ \E d \in Deployments :
          /\ LLM_BACKEND = d.backend
          /\ WATSONX_CONFIG = d.config
          /\ sdkInstalled = d.sdk
    /\ calls = [c \in CallIds |-> IdleCall]
    /\ started = 0
    /\ built = {}
    /\ raised = {}
    /\ adapters = 0
    /\ networkCalls = 0
    /\ GenOff
    /\ StreamOff

Next ==
    \/ \E c \in CallIds, mode \in Modes :
          get_agent(c, mode) /\ UNCHANGED <<genVars, streamVars>>
    \/ \E c \in CallIds, mode \in Modes :
          get_indexing_pipeline(c, mode) /\ UNCHANGED <<genVars, streamVars>>
    \/ \E c \in CallIds : ResolveConfig(c) /\ UNCHANGED <<genVars, streamVars>>
    \/ \E c \in CallIds : InjectStorage(c) /\ UNCHANGED <<genVars, streamVars>>
    \/ \E c \in CallIds : ConstructAgent(c) /\ UNCHANGED <<genVars, streamVars>>
    \/ \E c \in CallIds : ConstructIndexingPipeline(c) /\ UNCHANGED <<genVars, streamVars>>

Spec == Init /\ [][Next]_vars

----------------------------------------------------------------------------
(* Claims about the factory, checked under Spec *)

HasStorage(config) == "storage" \in DOMAIN config

Missing(x) == x = None \/ x = PyStr("")

AllIdle == \A c \in CallIds : calls[c].pc = "idle"

\* C1: after any sequence of get_agent / get_indexing_pipeline calls the shared
\* pipeline configuration table equals its value before the first call.
C1_TableUnchanged == PIPELINE_CONFIGS = initial_configs

\* C2: for every mode absent from the table and for both target kinds, the
\* component receives a configuration equal to the table's "default" entry,
\* and it has a storage sub-record (the built-in one when the default entry
\* had none).
C2_AbsentModeGetsDefaultWithStorage ==
    \A b \in built :
        b.mode \notin DOMAIN PIPELINE_CONFIGS =>
            /\ b.pipeline_configs = PIPELINE_CONFIGS["default"]
            /\ HasStorage(b.pipeline_configs)
            /\ ~HasStorage(initial_configs["default"])
                  => b.pipeline_configs["storage"] = DefaultStorage

\* C3: when the selector names the cloud backend in any letter case and the
\* credential or the project id is missing or empty, every call of either
\* factory function ends in the configuration error (ValueError): no adapter
\* is constructed, no network call is made, no component is created.
C3_IncompleteCloudFailsFast ==
    (/\ LLM_BACKEND \in CloudSpellings
     /\ Missing(WATSONX_CONFIG.api_key) \/ Missing(WATSONX_CONFIG.project_id))
    => /\ adapters = 0
       /\ networkCalls = 0
       /\ built = {}
       /\ AllIdle
       /\ \A r \in raised : r.error = "ValueError"
       /\ started > 0 => raised # {}

\* C3 witness: under a spelling other than lower case, with an empty credential
\* and a set project id, both an agent call and an indexing call have raised.
C3_Witness ==
    /\ LLM_BACKEND \in CloudSpellings \ {watsonx}
    /\ WATSONX_CONFIG.api_key = PyStr("")
    /\ WATSONX_CONFIG.project_id = PyStr("p1")
    /\ \E r1, r2 \in raised : r1.kind = "agent" /\ r2.kind = "indexing"

----------------------------------------------------------------------------
(* SpecGen: one generate_completion call and one generate_completion_async  *)
(* call with the same arguments against the same backend behaviour          *)

InitGen ==
    /\ args \in ArgsSets
    /\ behaviour \in Behaviours
    /\ client = NewClient
    /\ syncPc = "idle"
    /\ syncResult = <<>>
    /\ syncRequest = <<>>
    /\ asyncPc = "idle"
    /\ workerResult = <<>>
    /\ asyncResult = <<>>
    /\ asyncRequest = <<>>
    /\ elapsed = 0
    /\ FactoryOff
    /\ StreamOff

NextGen ==
    \/ SyncCall /\ UNCHANGED <<factoryVars, streamVars>>
    \/ AsyncSubmit /\ UNCHANGED <<factoryVars, streamVars>>
    \/ Tick /\ UNCHANGED <<factoryVars, streamVars>>
    \/ WorkerRun /\ UNCHANGED <<factoryVars, streamVars>>
    \/ AsyncReturn /\ UNCHANGED <<factoryVars, streamVars>>

SpecGen == InitGen /\ [][NextGen]_vars

----------------------------------------------------------------------------
(* Claims about generate_completion and generate_completion_async, checked  *)
(* under SpecGen                                                            *)

\* the backend raised, or returned something other than the documented result
\* or a plain string
BackendFailed(beh) == beh.kind = "raise" \/ beh.value \in MalformedResults

\* the degraded result: empty text and a non-empty error
Degraded(result) ==
    /\ result["response"] = ""
    /\ "error" \in DOMAIN result
    /\ result["error"] # ""

\* C4: for every kind of backend failure (an exception of the network or of
\* authentication, a malformed response) generate_completion returns a result
\* with empty text and an error field that is present and non-empty.
C4_FailureGivesDegradedResult ==
    (syncPc = "done" /\ BackendFailed(behaviour)) => Degraded(syncResult)

\* C6: a caller of generate_completion_async is never still waiting for the
\* offloaded call once more time than its timeout hint has passed: it has been
\* given a timeout result by then.
C6_TimeoutHonoured ==
    asyncPc = "awaiting" => elapsed <= args.timeout

\* C7: for the same inputs and the same backend behaviour the asynchronous
\* variant sends the backend the same calls and returns the same result as
\* generate_completion, the degraded result included, and neither call
\* changes the client's attributes.
C7_AsyncEqualsSync ==
    /\ client = NewClient
    /\ (syncPc = "done" /\ asyncPc \in {"workerDone", "done"}) =>
          /\ asyncRequest = syncRequest
          /\ workerResult = syncResult
    /\ (syncPc = "done" /\ asyncPc = "done") => asyncResult = syncResult

\* C7 witness: both variants have returned the degraded result of a failed
\* generate call made with a sampling parameter that is forwarded.
C7_Witness ==
    /\ syncPc = "done"
    /\ asyncPc = "done"
    /\ behaviour = Raise("generate", "ConnectionError", "connection refused")
    /\ "temperature" \in DOMAIN args.kwargs
    /\ args.kwargs["temperature"] = PyInt(1)
    /\ asyncResult = [response |-> "", error |-> "connection refused"]
    /\ elapsed > 0

\* the parameters the backend was constructed with
ParamsSent(request) ==
    IF request[1].params = None THEN <<>> ELSE request[1].params.v

\* C9: every sampling parameter the caller supplies, the value 0 included,
\* reaches the backend with exactly that value, and no other parameter does.
C9_SamplingForwardedVerbatim ==
    syncPc = "done" =>
        \A k \in SamplingNames :
            IF k \in DOMAIN args.kwargs
            THEN /\ BackendName(k) \in DOMAIN ParamsSent(syncRequest)
                 /\ ParamsSent(syncRequest)[BackendName(k)] = args.kwargs[k]
            ELSE BackendName(k) \notin DOMAIN ParamsSent(syncRequest)

----------------------------------------------------------------------------
(* SpecStream: one stream_completion call, consumed to its end *)

InitStream ==
    /\ sargs \in StreamArgsSets
    /\ script \in Scripts
    /\ fallbackBehaviour \in FallbackBehaviours
    /\ streamPc = "created"
    /\ yielded = <<>>
    /\ streamRequest = <<>>
    /\ backendCalls = <<>>
    /\ failedAfter = -1
    /\ failKind = "none"
    /\ yieldedAtFallback = -1
    /\ FactoryOff
    /\ GenOff

NextStream ==
    \/ NextChunk /\ UNCHANGED <<factoryVars, genVars>>
    \/ NextComplete /\ UNCHANGED <<factoryVars, genVars>>
    \/ NextError /\ UNCHANGED <<factoryVars, genVars>>
    \/ NextFallback /\ UNCHANGED <<factoryVars, genVars>>
    \/ NextStop /\ UNCHANGED <<factoryVars, genVars>>

SpecStream == InitStream /\ [][NextStream]_vars

----------------------------------------------------------------------------
(* Claims about stream_completion, checked under SpecStream *)

\* C5: if the backend fails after k >= 0 chunks were yielded, whatever the
\* failure, the sequence is those k chunks followed by exactly one more chunk,
\* the empty string, and then it ends.
C5_FailureYieldsOneEmptyChunk ==
    (streamPc = "done" /\ failKind # "none") =>
        /\ Len(yielded) = failedAfter + 1
        /\ yielded[Len(yielded)] = ""

\* C10: the blocking generate fallback is invoked only when the call has
\* yielded no chunk yet.
C10_FallbackOnlyBeforeFirstChunk ==
    yieldedAtFallback \in {-1, 0}

====
